---- MODULE Spec2Model ----
(***************************************************************************)
(* Model of the RunRecipe component                                        *)
(* (site/src/components/RunRecipe/index.jsx): a function from a props      *)
(* record to a tabbed list of instruction variants.  Strings are TLA+      *)
(* strings, handled with Len, SubSeq and \o; a JavaScript value is a       *)
(* record tagged with its type, so that undefined is no string.            *)
(***************************************************************************)
EXTENDS Integers, Sequences, FiniteSets, TLC

(***************************************************************************)
(* JavaScript values                                                       *)
(***************************************************************************)
Undefined == [type |-> "undefined"]

JsString(s) == [type |-> "string", value |-> s]

JsBool(b) == [type |-> "boolean", value |-> b]

IsString(x) == x.type = "string"

\* ToBoolean: undefined and the empty string are falsy.
Truthy(x) ==
    CASE x.type = "undefined" -> FALSE
      [] x.type = "string"    -> x.value # ""
      [] x.type = "boolean"   -> x.value

\* The ToString conversion, as applied by ${...} inside a template literal.
JsToString(x) ==
    CASE x.type = "undefined" -> "undefined"
      [] x.type = "string"    -> x.value
      [] x.type = "boolean"   -> IF x.value THEN "true" ELSE "false"

(***************************************************************************)
(* Strings                                                                 *)
(***************************************************************************)
CharAt(s, i) == SubSeq(s, i, i)

\* s[i..] starts with t
StartsWithAt(s, i, t) == i + Len(t) - 1 <= Len(s) /\ SubSeq(s, i, i + Len(t) - 1) = t

\* t occurs in s as a contiguous substring
Contains(s, t) == \E i \in 1..(Len(s) - Len(t) + 1) : SubSeq(s, i, i + Len(t) - 1) = t

\* the positions of s that hold the character ch
Positions(s, ch) == {i \in 1..Len(s) : CharAt(s, i) = ch}

\* The characters the regular expression class \s matches, as far as a TLA+
\* string can write them.
Whitespace == {" ", "\t", "\n", "\r", "\f"}

\* The last position of the maximal whitespace run that starts at i.
RunEnd(s, i) ==
    CHOOSE j \in i..Len(s) :
        /\ \A k \in i..j : CharAt(s, k) \in Whitespace
        /\ (j = Len(s) \/ CharAt(s, j + 1) \notin Whitespace)

RECURSIVE ReplaceFrom(_, _)
ReplaceFrom(s, i) ==
    IF i > Len(s) THEN ""
    ELSE IF CharAt(s, i) \in Whitespace THEN ReplaceFrom(s, RunEnd(s, i) + 1)
    ELSE CharAt(s, i) \o ReplaceFrom(s, i + 1)

\* The g flag left off: only the first whitespace run is replaced.
ReplaceFirstRun(s) ==
    LET ws == {i \in 1..Len(s) : CharAt(s, i) \in Whitespace}
    IN  IF ws = {} THEN s
        ELSE LET i == CHOOSE k \in ws : \A m \in ws : k <= m
             IN  SubSeq(s, 1, i - 1) \o SubSeq(s, RunEnd(s, i) + 1, Len(s))

\* s.replace(/\s+/g, ''): every maximal whitespace run is replaced by ''.
ReplaceWhitespaceRuns(s) == ReplaceFrom(s, 1)

RECURSIVE SplitFrom(_, _, _)
SplitFrom(s, sep, i) ==
    LET at == {k \in i..Len(s) : CharAt(s, k) = sep}
    IN  IF at = {} THEN << SubSeq(s, i, Len(s)) >>
        ELSE LET k == CHOOSE m \in at : \A n \in at : m <= n
             IN  << SubSeq(s, i, k - 1) >> \o SplitFrom(s, sep, k + 1)

\* The separator never found, as with a mistyped one: a single segment.
SplitUnsplit(s, sep) == << s >>

\* s.split(sep) for a one-character separator: the array of all segments.
Split(s, sep) == SplitFrom(s, sep, 1)

\* const [a, b] = arr: the first two elements, undefined where arr is short.
Element(arr, i) == IF i <= Len(arr) THEN JsString(arr[i]) ELSE Undefined

(***************************************************************************)
(* Name Deriver (lines 26-27)                                              *)
(***************************************************************************)
WrapperPrefix == "com.github.timtebeek."

DescriptionClause == " and apply best practices to assertions."

\* `com.github.timtebeek.${recipeDisplayName.replace(/\s+/g, '')}`
deriveWrapperName(displayName) == WrapperPrefix \o ReplaceWhitespaceRuns(displayName)

\* The whitespace removal of line 26 applied on line 27 as well.
deriveDescriptionStripped(displayName) ==
    ReplaceWhitespaceRuns(JsToString(displayName)) \o DescriptionClause

\* `${recipeDisplayName} and apply best practices to assertions.`
deriveDescription(displayName) == JsToString(displayName) \o DescriptionClause

\* The fallback written with ??, which falls back on undefined only.
OrElseNullish(a, b) == IF a = Undefined THEN b ELSE a.value

\* a || b on a string-or-undefined a: a when truthy, else b.
OrElse(a, b) == IF Truthy(a) THEN a.value ELSE b

\* A method called on intellijDescription before the fallback, as in
\* intellijDescription.trim() || ...: an absent description throws too.
DeriveThrowsOnAbsentDescription(f) ==
    \/ ~Truthy(f.intellijWrapperName) /\ ~IsString(f.recipeDisplayName)
    \/ ~IsString(f.intellijDescription)

\* recipeDisplayName.replace is evaluated only when intellijWrapperName is
\* falsy, and throws a TypeError on undefined.
DeriveThrows(f) == ~Truthy(f.intellijWrapperName) /\ ~IsString(f.recipeDisplayName)

\* artifact.split throws a TypeError on undefined.
SplitThrows(f) == ~IsString(f.artifact)

(***************************************************************************)
(* Snippet Synthesizer (lines 33-121)                                      *)
(***************************************************************************)
ModBuild == "mod build ~/workspace/"

JarInstallLine(artifact) == "mod config recipes jar install " \o artifact \o ":LATEST"

YamlInstallLine == "mod config recipes yaml install /path/to/your/rewrite.yml"

\* The two branches of the conditional exchanged.
ModConfigRecipesInverted(requiresYamlInstall, artifact) ==
    IF Truthy(requiresYamlInstall)
    THEN JarInstallLine(artifact)
    ELSE JarInstallLine(artifact) \o "\n" \o YamlInstallLine

ModConfigRecipes(requiresYamlInstall, artifact) ==
    IF Truthy(requiresYamlInstall)
    THEN JarInstallLine(artifact) \o "\n" \o YamlInstallLine
    ELSE JarInstallLine(artifact)

\* The recipe name normalised like the display name of line 26.
ModRunStripped(recipeName) == "mod run ~/workspace/ --recipe " \o ReplaceWhitespaceRuns(recipeName)

ModRun(recipeName) == "mod run ~/workspace/ --recipe " \o recipeName

\* The version token of the runner's install line pasted into the Maven command.
MavenCliLatest(artifact, recipeName) ==
    "mvn -U org.openrewrite.maven:rewrite-maven-plugin:run -Drewrite.recipeArtifactCoordinates="
    \o artifact
    \o ":LATEST -Drewrite.activeRecipes="
    \o recipeName
    \o " -Drewrite.exportDatatables=true"

MavenCli(artifact, recipeName) ==
    "mvn -U org.openrewrite.maven:rewrite-maven-plugin:run -Drewrite.recipeArtifactCoordinates="
    \o artifact
    \o ":RELEASE -Drewrite.activeRecipes="
    \o recipeName
    \o " -Drewrite.exportDatatables=true"

\* The two halves of the coordinate in each other's element.
MavenPomSwapped(recipeName, groupId, artifactId) ==
    "<project>\n"
    \o "  <build>\n"
    \o "    <plugins>\n"
    \o "      <plugin>\n"
    \o "        <groupId>org.openrewrite.maven</groupId>\n"
    \o "        <artifactId>rewrite-maven-plugin</artifactId>\n"
    \o "        <version>LATEST</version>\n"
    \o "        <configuration>\n"
    \o "          <exportDatatables>true</exportDatatables>\n"
    \o "          <activeRecipes>\n"
    \o "            <recipe>"
    \o recipeName
    \o "</recipe>\n"
    \o "          </activeRecipes>\n"
    \o "        </configuration>\n"
    \o "        <dependencies>\n"
    \o "          <dependency>\n"
    \o "            <groupId>"
    \o artifactId
    \o "</groupId>\n"
    \o "            <artifactId>"
    \o groupId
    \o "</artifactId>\n"
    \o "            <version>LATEST</version>\n"
    \o "          </dependency>\n"
    \o "        </dependencies>\n"
    \o "      </plugin>\n"
    \o "    </plugins>\n"
    \o "  </build>\n"
    \o "</project>"

MavenPom(recipeName, groupId, artifactId) ==
    "<project>\n"
    \o "  <build>\n"
    \o "    <plugins>\n"
    \o "      <plugin>\n"
    \o "        <groupId>org.openrewrite.maven</groupId>\n"
    \o "        <artifactId>rewrite-maven-plugin</artifactId>\n"
    \o "        <version>LATEST</version>\n"
    \o "        <configuration>\n"
    \o "          <exportDatatables>true</exportDatatables>\n"
    \o "          <activeRecipes>\n"
    \o "            <recipe>"
    \o recipeName
    \o "</recipe>\n"
    \o "          </activeRecipes>\n"
    \o "        </configuration>\n"
    \o "        <dependencies>\n"
    \o "          <dependency>\n"
    \o "            <groupId>"
    \o groupId
    \o "</groupId>\n"
    \o "            <artifactId>"
    \o artifactId
    \o "</artifactId>\n"
    \o "            <version>LATEST</version>\n"
    \o "          </dependency>\n"
    \o "        </dependencies>\n"
    \o "      </plugin>\n"
    \o "    </plugins>\n"
    \o "  </build>\n"
    \o "</project>"

\* The group half of the split coordinate in place of the whole artifact.
GradleInitGroupOnly(artifact, recipeName) ==
    "initscript {\n"
    \o "    repositories {\n"
    \o "        maven { url \"https://plugins.gradle.org/m2\" }\n"
    \o "    }\n"
    \o "    dependencies { classpath(\"org.openrewrite:plugin:latest.release\") }\n"
    \o "}\n"
    \o "rootProject {\n"
    \o "    plugins.apply(org.openrewrite.gradle.RewritePlugin)\n"
    \o "    dependencies {\n"
    \o "        rewrite(\""
    \o Split(artifact, ":")[1]
    \o ":latest.release\")\n"
    \o "    }\n"
    \o "    rewrite {\n"
    \o "        activeRecipe(\""
    \o recipeName
    \o "\")\n"
    \o "        setExportDatatables(true)\n"
    \o "    }\n"
    \o "    afterEvaluate {\n"
    \o "        if (repositories.isEmpty()) {\n"
    \o "            repositories {\n"
    \o "                mavenCentral()\n"
    \o "            }\n"
    \o "        }\n"
    \o "    }\n"
    \o "}"

GradleInit(artifact, recipeName) ==
    "initscript {\n"
    \o "    repositories {\n"
    \o "        maven { url \"https://plugins.gradle.org/m2\" }\n"
    \o "    }\n"
    \o "    dependencies { classpath(\"org.openrewrite:plugin:latest.release\") }\n"
    \o "}\n"
    \o "rootProject {\n"
    \o "    plugins.apply(org.openrewrite.gradle.RewritePlugin)\n"
    \o "    dependencies {\n"
    \o "        rewrite(\""
    \o artifact
    \o ":latest.release\")\n"
    \o "    }\n"
    \o "    rewrite {\n"
    \o "        activeRecipe(\""
    \o recipeName
    \o "\")\n"
    \o "        setExportDatatables(true)\n"
    \o "    }\n"
    \o "    afterEvaluate {\n"
    \o "        if (repositories.isEmpty()) {\n"
    \o "            repositories {\n"
    \o "                mavenCentral()\n"
    \o "            }\n"
    \o "        }\n"
    \o "    }\n"
    \o "}"

GradleBuild(artifact, recipeName) ==
    "plugins {\n"
    \o "    id(\"org.openrewrite.rewrite\") version(\"latest.release\")\n"
    \o "}\n"
    \o "\n"
    \o "rewrite {\n"
    \o "    activeRecipe(\""
    \o recipeName
    \o "\")\n"
    \o "    setExportDatatables(true)\n"
    \o "}\n"
    \o "\n"
    \o "repositories {\n"
    \o "    mavenCentral()\n"
    \o "}\n"
    \o "\n"
    \o "dependencies {\n"
    \o "    rewrite(\""
    \o artifact
    \o ":latest.release\")\n"
    \o "}"

\* The display name interpolated where the wrapper name belongs.
IntellijYamlNamedByDisplayName(wrapperName, recipeDisplayName, description, recipeName) ==
    "---\n"
    \o "type: specs.openrewrite.org/v1beta/recipe\n"
    \o "name: "
    \o recipeDisplayName
    \o "\n"
    \o "displayName: "
    \o recipeDisplayName
    \o "\n"
    \o "description: "
    \o description
    \o "\n"
    \o "recipeList:\n"
    \o "  - "
    \o recipeName

\* The description line written ahead of the displayName line.
IntellijYamlDescriptionFirst(wrapperName, recipeDisplayName, description, recipeName) ==
    "---\n"
    \o "type: specs.openrewrite.org/v1beta/recipe\n"
    \o "name: "
    \o wrapperName
    \o "\n"
    \o "description: "
    \o description
    \o "\n"
    \o "displayName: "
    \o recipeDisplayName
    \o "\n"
    \o "recipeList:\n"
    \o "  - "
    \o recipeName

IntellijYaml(wrapperName, recipeDisplayName, description, recipeName) ==
    "---\n"
    \o "type: specs.openrewrite.org/v1beta/recipe\n"
    \o "name: "
    \o wrapperName
    \o "\n"
    \o "displayName: "
    \o recipeDisplayName
    \o "\n"
    \o "description: "
    \o description
    \o "\n"
    \o "recipeList:\n"
    \o "  - "
    \o recipeName

(***************************************************************************)
(* Variant Composer: the returned element tree (lines 123-228).  A tab     *)
(* body is the list of its paragraphs and code blocks in document order;   *)
(* list items are flattened.  A paragraph is static text of the source, a  *)
(* code block holds either a snippet or static text.                       *)
(***************************************************************************)
Prose(text) == [kind |-> "prose", text |-> text]

CodeBlock(language, title, text) ==
    [kind |-> "code", language |-> language, title |-> title, text |-> text]

TabItem(value, label, body) == [value |-> value, label |-> label, body |-> body]

\* The install step listed before the build step.
ModerneCliBodyInstallFirst(f) ==
    << Prose("The Moderne CLI allows you to run OpenRewrite recipes on your project without needing to modify your build files, against serialized Lossless Semantic Tree (LST) of your project for a considerable performance boost & across projects."),
       Prose("You will need to have configured the Moderne CLI on your machine before you can run the following command."),
       Prose("If the recipe is not available locally yet, then you can install it once using:"),
       CodeBlock("shell", "shell", f.modConfigRecipes),
       Prose("If project serialized Lossless Semantic Tree is not yet available locally, then build the LST. This is only needed the first time, or after extensive changes:"),
       CodeBlock("bash", "shell", f.modBuild),
       Prose("Run the recipe."),
       CodeBlock("shell", "shell", f.modRun) >>

ModerneCliBody(f) ==
    << Prose("The Moderne CLI allows you to run OpenRewrite recipes on your project without needing to modify your build files, against serialized Lossless Semantic Tree (LST) of your project for a considerable performance boost & across projects."),
       Prose("You will need to have configured the Moderne CLI on your machine before you can run the following command."),
       Prose("If project serialized Lossless Semantic Tree is not yet available locally, then build the LST. This is only needed the first time, or after extensive changes:"),
       CodeBlock("bash", "shell", f.modBuild),
       Prose("If the recipe is not available locally yet, then you can install it once using:"),
       CodeBlock("shell", "shell", f.modConfigRecipes),
       Prose("Run the recipe."),
       CodeBlock("shell", "shell", f.modRun) >>

\* The manifest's install step repeated in the ad hoc Maven tab.
MavenCliBodyWithInstall(f) ==
    << Prose("You will need to have Maven installed on your machine before you can run the following command."),
       CodeBlock("shell", "shell", f.mavenCli) >>
    \o (IF Truthy(f.requiresYamlInstall)
        THEN << CodeBlock("shell", "shell", YamlInstallLine) >>
        ELSE << >>)

MavenCliBody(f) ==
    << Prose("You will need to have Maven installed on your machine before you can run the following command."),
       CodeBlock("shell", "shell", f.mavenCli) >>

MavenPomBody(f) ==
    << Prose("You may add the plugin to your pom.xml file, so that it is available for all developers and CI/CD pipelines."),
       Prose("Add the following to your pom.xml file:"),
       CodeBlock("xml", "pom.xml", f.mavenPom),
       Prose("Run the recipe."),
       CodeBlock("shell", "shell", "mvn rewrite:run") >>

GradleInitBody(f) ==
    << Prose("Gradle init scripts are a good way to try out a recipe without modifying your build.gradle file."),
       Prose("Create a file named init.gradle in the root of your project."),
       CodeBlock("groovy", "init.gradle", f.gradleInit),
       Prose("Run the recipe."),
       CodeBlock("shell", "shell", "gradle --init-script init.gradle rewriteRun") >>

\* The display name worked into the closing sentence of the Gradle tab.
GradleBodyNamingRecipe(f) ==
    << Prose("You can add the plugin to your build.gradle file, so that it is available for all developers and CI/CD pipelines."),
       Prose("Add the following to your build.gradle file:"),
       CodeBlock("groovy", "build.gradle", f.gradleBuild),
       Prose("Run gradle rewriteRun to run the " \o JsToString(f.recipeDisplayName) \o " recipe.") >>

GradleBody(f) ==
    << Prose("You can add the plugin to your build.gradle file, so that it is available for all developers and CI/CD pipelines."),
       Prose("Add the following to your build.gradle file:"),
       CodeBlock("groovy", "build.gradle", f.gradleBuild),
       Prose("Run gradle rewriteRun to run the recipe.") >>

\* The branch of lines 212-216: two paragraphs, nothing interpolated.
IntellijInstalledBody ==
    << Prose("You can run OpenRewrite recipes directly from IntelliJ IDEA, after installing the OpenRewrite plugin."),
       Prose("After adding the rewrite.yml file shown above to your project, you should see a run icon in the left margin offering to run the recipe.") >>

\* The branch of lines 217-224.
IntellijFileBody(f) ==
    << Prose("You can run OpenRewrite recipes directly from IntelliJ IDEA Ultimate, after installing the OpenRewrite plugin, by adding a rewrite.yml file to your project."),
       CodeBlock("yaml", "rewrite.yml", f.intellijYaml),
       Prose("After adding the file, you should see a run icon in the left margin offering to run the recipe.") >>

\* The rewrite.yml branch taken whatever the flag.
IntellijBodyAlwaysFile(f) == IntellijFileBody(f)

IntellijBody(f) ==
    IF Truthy(f.requiresYamlInstall) THEN IntellijInstalledBody ELSE IntellijFileBody(f)

\* The IDE tab left out when the manifest is installed by the runner.
TabsHidingIntellij(f) ==
    << TabItem("moderne-cli", "Moderne CLI", ModerneCliBody(f)),
       TabItem("maven-command-line", "Maven Command Line", MavenCliBody(f)),
       TabItem("maven", "Maven POM", MavenPomBody(f)),
       TabItem("gradle-init-script", "Gradle init script", GradleInitBody(f)),
       TabItem("gradle", "Gradle", GradleBody(f)) >>
    \o (IF Truthy(f.requiresYamlInstall) THEN << >>
        ELSE << TabItem("intelliJ", "IntelliJ IDEA Ultimate", IntellijBody(f)) >>)

\* The IDE tab labelled after the product name its first paragraph uses.
TabsRelabelled(f) ==
    << TabItem("moderne-cli", "Moderne CLI", ModerneCliBody(f)),
       TabItem("maven-command-line", "Maven Command Line", MavenCliBody(f)),
       TabItem("maven", "Maven POM", MavenPomBody(f)),
       TabItem("gradle-init-script", "Gradle init script", GradleInitBody(f)),
       TabItem("gradle", "Gradle", GradleBody(f)),
       TabItem("intelliJ",
               IF Truthy(f.requiresYamlInstall) THEN "IntelliJ IDEA" ELSE "IntelliJ IDEA Ultimate",
               IntellijBody(f)) >>

\* <Tabs groupId="projectType"> and its TabItem children, in source order.
Tabs(f) ==
    << TabItem("moderne-cli", "Moderne CLI", ModerneCliBody(f)),
       TabItem("maven-command-line", "Maven Command Line", MavenCliBody(f)),
       TabItem("maven", "Maven POM", MavenPomBody(f)),
       TabItem("gradle-init-script", "Gradle init script", GradleInitBody(f)),
       TabItem("gradle", "Gradle", GradleBody(f)),
       TabItem("intelliJ", "IntelliJ IDEA Ultimate", IntellijBody(f)) >>

(***************************************************************************)
(* Inputs: the props a page passes.  An omitted prop is undefined.         *)
(***************************************************************************)
MaxNameLen == 3

MaxArtifactLen == 3

MaxCallers == 2

MaxRecipeLen == 3

RECURSIVE StringsUpTo(_, _)
StringsUpTo(alphabet, n) ==
    IF n = 0 THEN {""}
    ELSE LET shorter == StringsUpTo(alphabet, n - 1)
         IN  shorter \cup {s \o ch : s \in shorter, ch \in alphabet}

Props(recipeName, recipeDisplayName, artifact, intellijWrapperName, intellijDescription, requiresYamlInstall) ==
    [recipeName |-> recipeName, recipeDisplayName |-> recipeDisplayName, artifact |-> artifact,
     intellijWrapperName |-> intellijWrapperName, intellijDescription |-> intellijDescription,
     requiresYamlInstall |-> requiresYamlInstall]

RecipeNames ==
    {JsString("org.openrewrite.java.testing.junit5.JUnit4to5Migration"),
     JsString("com.github.timtebeek.Java21ForTests")}

DisplayNames ==
    {Undefined, JsString(""), JsString("Adopt AssertJ"), JsString(" JUnit\t6  Best\nPractices ")}

Artifacts ==
    {Undefined, JsString("org.openrewrite.recipe:rewrite-testing-frameworks"),
     JsString("org.example:my-tool"), JsString("no-colon-here"), JsString("g:a:1.0")}

WrapperNames == {Undefined, JsString(""), JsString("com.example.CustomWrapper")}

Descriptions == {Undefined, JsString(""), JsString("Upgrade your tests to Java 21.")}

Flags == {Undefined, JsBool(FALSE), JsBool(TRUE)}

\* every combination of the values above
CoreConfigs ==
    {Props(r, d, a, w, e, y) : r \in RecipeNames, d \in DisplayNames, a \in Artifacts,
                               w \in WrapperNames, e \in Descriptions, y \in Flags}

\* every short display name over letters and whitespace, as on the
\* "JUnit 6 Best Practices" page: no override, flag omitted
NameConfigs ==
    {Props(JsString("org.openrewrite.java.testing.junit.JUnit6BestPractices"), JsString(d),
           JsString("org.openrewrite.recipe:rewrite-testing-frameworks"), Undefined, Undefined, Undefined) :
        d \in StringsUpTo({"A", "b", " ", "\t", "\n"}, MaxNameLen)}

\* every short coordinate with zero, one or several colons
ArtifactConfigs ==
    {Props(JsString("org.openrewrite.java.testing.junit.JUnit6BestPractices"),
           JsString("JUnit 6 Best Practices"), JsString(a), Undefined, Undefined, Undefined) :
        a \in StringsUpTo({"g", "a", ":"}, MaxArtifactLen)}

\* every short recipe name over a letter, the dot of a qualified name, a
\* blank and a markup character, with the manifest installed or not
RecipeConfigs ==
    {Props(JsString(r), JsString("JUnit 6 Best Practices"),
           JsString("org.openrewrite.recipe:rewrite-testing-frameworks"), Undefined, Undefined, y) :
        r \in StringsUpTo({"R", ".", " ", "<"}, MaxRecipeLen), y \in {Undefined, JsBool(TRUE)}}

Configs == CoreConfigs \cup NameConfigs \cup ArtifactConfigs \cup RecipeConfigs

\* props p with the attribute showIntelliJ={v} added, which the component
\* does not declare
WithShowIntelliJ(p, v) == p @@ [showIntelliJ |-> v]

\* the pages of the site, for concurrent renders
PageConfigs ==
    {Props(JsString("org.openrewrite.java.testing.assertj.Assertj"), JsString("Adopt AssertJ"),
           JsString("org.openrewrite.recipe:rewrite-testing-frameworks"), Undefined,
           JsString("Adopt AssertJ and apply best practices to assertions."), Undefined),
     Props(JsString("org.openrewrite.java.testing.junit.JUnit6BestPractices"), JsString("JUnit 6 Best Practices"),
           JsString("org.openrewrite.recipe:rewrite-testing-frameworks"), Undefined, Undefined, Undefined),
     Props(JsString("com.github.timtebeek.Java21ForTests"), JsString("Java 21 for tests"),
           JsString("org.openrewrite.recipe:rewrite-migrate-java"), Undefined, Undefined, JsBool(TRUE)),
     Props(JsString("com.github.timtebeek.ChangeTestMethodSignatures"), JsString("Change test method signatures"),
           JsString("org.openrewrite.recipe:rewrite-testing-frameworks"), Undefined, Undefined, JsBool(TRUE)),
     WithShowIntelliJ(
         Props(JsString("com.github.timtebeek.ChangeTestMethodSignatures"), JsString("Change test method signatures"),
               JsString("org.openrewrite.recipe:rewrite-testing-frameworks"), Undefined, Undefined, JsBool(TRUE)),
         JsBool(FALSE)),
     Props(JsString("com.github.timtebeek.Java21ForTests"), Undefined,
           JsString("no-colon-here"), Undefined, Undefined, JsBool(FALSE))}

\* two renders side by side: every combination of the optional props
PairConfigs ==
    {Props(JsString("org.openrewrite.java.testing.assertj.Assertj"), d,
           JsString("org.openrewrite.recipe:rewrite-testing-frameworks"), w, e, y) :
        d \in {Undefined, JsString("Adopt AssertJ"), JsString("JUnit 6 Best Practices")}, w \in WrapperNames,
        e \in {Undefined, JsString("Upgrade your tests to Java 21.")}, y \in Flags}

Callers == 1..MaxCallers

(***************************************************************************)
(* State                                                                   *)
(***************************************************************************)
VARIABLES
    pc,     \* pc[c]: where caller c's render call stands
    props,  \* props[c]: the props of caller c's current call
    frame,  \* frame[i]: the bindings of one activation of RunRecipe
    out,    \* out[c]: the tab list returned to caller c
    err     \* err[c]: the error thrown to caller c

vars == << pc, props, frame, out, err >>

NoCall == [type |-> "nocall"]

NoOutput == << >>

NoError == "none"

\* An activation before any of its const declarations has run.
NoFrame ==
    [recipeName |-> Undefined, recipeDisplayName |-> Undefined, artifact |-> Undefined,
     intellijWrapperName |-> Undefined, intellijDescription |-> Undefined,
     requiresYamlInstall |-> Undefined,
     wrapperName |-> "", description |-> "", groupId |-> Undefined, artifactId |-> Undefined,
     modBuild |-> "", modConfigRecipes |-> "", modRun |-> "", mavenCli |-> "", mavenPom |-> "",
     gradleInit |-> "", gradleBuild |-> "", intellijYaml |-> ""]

\* The bindings declared at module level: one activation for all calls.
SharedSlot(c) == 1

\* Each call has its own activation: the bindings are parameters and
\* function-scope consts, so caller c's call uses frame c.
Slot(c) == c

\* The default of line 23 written as true.
BindDefaultTrue(p) ==
    [recipeName |-> p.recipeName, recipeDisplayName |-> p.recipeDisplayName, artifact |-> p.artifact,
     intellijWrapperName |-> p.intellijWrapperName, intellijDescription |-> p.intellijDescription,
     requiresYamlInstall |->
         IF p.requiresYamlInstall = Undefined THEN JsBool(TRUE) ELSE p.requiresYamlInstall,
     wrapperName |-> "", description |-> "", groupId |-> Undefined, artifactId |-> Undefined,
     modBuild |-> "", modConfigRecipes |-> "", modRun |-> "", mavenCli |-> "", mavenPom |-> "",
     gradleInit |-> "", gradleBuild |-> "", intellijYaml |-> ""]

\* The parameter destructuring of lines 17-24, with the default of line 23.
Bind(p) ==
    [NoFrame EXCEPT
        !.recipeName = p.recipeName,
        !.recipeDisplayName = p.recipeDisplayName,
        !.artifact = p.artifact,
        !.intellijWrapperName = p.intellijWrapperName,
        !.intellijDescription = p.intellijDescription,
        !.requiresYamlInstall =
            IF p.requiresYamlInstall = Undefined THEN JsBool(FALSE) ELSE p.requiresYamlInstall]

Init ==
    /\ pc = [c \in Callers |-> "idle"]
    /\ props = [c \in Callers |-> NoCall]
    /\ frame = [c \in Callers |-> NoFrame]
    /\ out = [c \in Callers |-> NoOutput]
    /\ err = [c \in Callers |-> NoError]

\* A page renders <RunRecipe ... />: the call is entered and its
\* parameters are bound.
Call(c, p) ==
    /\ pc[c] = "idle"
    /\ pc' = [pc EXCEPT ![c] = "entered"]
    /\ props' = [props EXCEPT ![c] = p]
    /\ frame' = [frame EXCEPT ![Slot(c)] = Bind(p)]
    /\ UNCHANGED << out, err >>

\* The body throws: the activation is gone and the caller gets the error.
Throw(c, name) ==
    /\ pc' = [pc EXCEPT ![c] = "threw"]
    /\ err' = [err EXCEPT ![c] = name]
    /\ frame' = [frame EXCEPT ![Slot(c)] = NoFrame]
    /\ UNCHANGED << props, out >>

\* Line 27 pasted from line 26 with the wrong prop left in.
DeriveNamesPasted(c) ==
    /\ pc[c] = "entered"
    /\ LET f == frame[Slot(c)]
       IN  IF DeriveThrows(f)
           THEN Throw(c, "TypeError")
           ELSE /\ frame' = [frame EXCEPT ![Slot(c)] =
                        [f EXCEPT
                            !.wrapperName =
                                OrElse(f.intellijWrapperName, deriveWrapperName(f.recipeDisplayName.value)),
                            !.description =
                                OrElse(f.intellijWrapperName, deriveDescription(f.recipeDisplayName))]]
                /\ pc' = [pc EXCEPT ![c] = "derived"]
                /\ UNCHANGED << props, out, err >>

\* The defaults resolved together: nothing is derived once either override
\* is supplied.
DeriveNamesCoupled(c) ==
    /\ pc[c] = "entered"
    /\ LET f == frame[Slot(c)]
           overridden == Truthy(f.intellijWrapperName) \/ Truthy(f.intellijDescription)
       IN  IF DeriveThrows(f)
           THEN Throw(c, "TypeError")
           ELSE /\ frame' = [frame EXCEPT ![Slot(c)] =
                        [f EXCEPT
                            !.wrapperName =
                                IF overridden THEN OrElse(f.intellijWrapperName, "")
                                ELSE deriveWrapperName(f.recipeDisplayName.value),
                            !.description =
                                IF overridden THEN OrElse(f.intellijDescription, "")
                                ELSE deriveDescription(f.recipeDisplayName)]]
                /\ pc' = [pc EXCEPT ![c] = "derived"]
                /\ UNCHANGED << props, out, err >>

\* Lines 26-27.
DeriveNames(c) ==
    /\ pc[c] = "entered"
    /\ LET f == frame[Slot(c)]
       IN  IF DeriveThrows(f)
           THEN Throw(c, "TypeError")
           ELSE /\ frame' = [frame EXCEPT ![Slot(c)] =
                        [f EXCEPT
                            !.wrapperName =
                                OrElse(f.intellijWrapperName, deriveWrapperName(f.recipeDisplayName.value)),
                            !.description =
                                OrElse(f.intellijDescription, deriveDescription(f.recipeDisplayName))]]
                /\ pc' = [pc EXCEPT ![c] = "derived"]
                /\ UNCHANGED << props, out, err >>

\* Line 30: const [groupId, artifactId] = artifact.split(':').
SplitArtifact(c) ==
    /\ pc[c] = "derived"
    /\ LET f == frame[Slot(c)]
       IN  IF SplitThrows(f)
           THEN Throw(c, "TypeError")
           ELSE LET parts == Split(f.artifact.value, ":")
                IN  /\ frame' = [frame EXCEPT ![Slot(c)] =
                            [f EXCEPT !.groupId = Element(parts, 1),
                                      !.artifactId = Element(parts, 2)]]
                    /\ pc' = [pc EXCEPT ![c] = "split"]
                    /\ UNCHANGED << props, out, err >>

\* Lines 33-121: the eight snippet constants.
BuildSnippets(c) ==
    /\ pc[c] = "split"
    /\ LET f == frame[Slot(c)]
           artifact == JsToString(f.artifact)
           recipeName == JsToString(f.recipeName)
       IN  frame' = [frame EXCEPT ![Slot(c)] =
               [f EXCEPT
                   !.modBuild = ModBuild,
                   !.modConfigRecipes = ModConfigRecipes(f.requiresYamlInstall, artifact),
                   !.modRun = ModRun(recipeName),
                   !.mavenCli = MavenCli(artifact, recipeName),
                   !.mavenPom = MavenPom(recipeName, JsToString(f.groupId), JsToString(f.artifactId)),
                   !.gradleInit = GradleInit(artifact, recipeName),
                   !.gradleBuild = GradleBuild(artifact, recipeName),
                   !.intellijYaml = IntellijYaml(f.wrapperName, JsToString(f.recipeDisplayName),
                                                 f.description, recipeName)]]
    /\ pc' = [pc EXCEPT ![c] = "built"]
    /\ UNCHANGED << props, out, err >>

\* The activation of every call torn down on return.
ReturnClearingAll(c) ==
    /\ pc[c] = "built"
    /\ out' = [out EXCEPT ![c] = Tabs(frame[Slot(c)])]
    /\ frame' = [i \in Callers |-> NoFrame]
    /\ pc' = [pc EXCEPT ![c] = "done"]
    /\ UNCHANGED << props, err >>

\* An attribute showIntelliJ={false} honoured: the IDE tab left out.
ReturnHonouringShowIntelliJ(c) ==
    /\ pc[c] = "built"
    /\ out' = [out EXCEPT ![c] =
                  IF "showIntelliJ" \in DOMAIN props[c] /\ props[c].showIntelliJ = JsBool(FALSE)
                  THEN SelectSeq(Tabs(frame[Slot(c)]), LAMBDA t : t.value # "intelliJ")
                  ELSE Tabs(frame[Slot(c)])]
    /\ frame' = [frame EXCEPT ![Slot(c)] = NoFrame]
    /\ pc' = [pc EXCEPT ![c] = "done"]
    /\ UNCHANGED << props, err >>

\* Lines 123-228: the element tree is returned and the activation ends.
Return(c) ==
    /\ pc[c] = "built"
    /\ out' = [out EXCEPT ![c] = Tabs(frame[Slot(c)])]
    /\ frame' = [frame EXCEPT ![Slot(c)] = NoFrame]
    /\ pc' = [pc EXCEPT ![c] = "done"]
    /\ UNCHANGED << props, err >>

\* The page has laid out the result (or reported the error) and may render
\* again.
Consume(c) ==
    /\ pc[c] \in {"done", "threw"}
    /\ pc' = [pc EXCEPT ![c] = "idle"]
    /\ props' = [props EXCEPT ![c] = NoCall]
    /\ out' = [out EXCEPT ![c] = NoOutput]
    /\ err' = [err EXCEPT ![c] = NoError]
    /\ UNCHANGED frame

\* What a call yields when it runs from entry to exit with nothing in
\* between: lines 17-228 executed in order on one activation.
RenderAlone(p) ==
    LET entered == Bind(p)
        threw == [pc |-> "threw", out |-> NoOutput, err |-> "TypeError"]
    IN  IF DeriveThrows(entered) THEN threw
        ELSE
        LET derived ==
                [entered EXCEPT
                    !.wrapperName =
                        OrElse(entered.intellijWrapperName,
                               deriveWrapperName(entered.recipeDisplayName.value)),
                    !.description =
                        OrElse(entered.intellijDescription,
                               deriveDescription(entered.recipeDisplayName))]
        IN  IF SplitThrows(derived) THEN threw
            ELSE
            LET parts == Split(derived.artifact.value, ":")
                split == [derived EXCEPT !.groupId = Element(parts, 1),
                                         !.artifactId = Element(parts, 2)]
                artifact == JsToString(split.artifact)
                recipeName == JsToString(split.recipeName)
                built ==
                    [split EXCEPT
                        !.modBuild = ModBuild,
                        !.modConfigRecipes = ModConfigRecipes(split.requiresYamlInstall, artifact),
                        !.modRun = ModRun(recipeName),
                        !.mavenCli = MavenCli(artifact, recipeName),
                        !.mavenPom = MavenPom(recipeName, JsToString(split.groupId),
                                              JsToString(split.artifactId)),
                        !.gradleInit = GradleInit(artifact, recipeName),
                        !.gradleBuild = GradleBuild(artifact, recipeName),
                        !.intellijYaml = IntellijYaml(split.wrapperName,
                                                      JsToString(split.recipeDisplayName),
                                                      split.description, recipeName)]
            IN  [pc |-> "done", out |-> Tabs(built), err |-> NoError]

\* One page at a time, every input.
Next ==
    \/ \E p \in Configs : Call(1, p)
    \/ DeriveNames(1)
    \/ SplitArtifact(1)
    \/ BuildSnippets(1)
    \/ Return(1)
    \/ Consume(1)

Spec == Init /\ [][Next]_vars

\* Several pages rendering at once, their steps interleaved.
NextConcurrent ==
    \E c \in Callers :
        \/ \E p \in PageConfigs : Call(c, p)
        \/ DeriveNames(c)
        \/ SplitArtifact(c)
        \/ BuildSnippets(c)
        \/ Return(c)
        \/ Consume(c)

SpecConcurrent == Init /\ [][NextConcurrent]_vars

\* Two pages rendering side by side, for comparing their results.
NextPair ==
    \E c \in {1, 2} :
        \/ \E p \in PairConfigs : Call(c, p)
        \/ DeriveNames(c)
        \/ SplitArtifact(c)
        \/ BuildSnippets(c)
        \/ Return(c)
        \/ Consume(c)

SpecPair == Init /\ [][NextPair]_vars

(***************************************************************************)
(* Vocabulary of the properties                                            *)
(***************************************************************************)
Returned(c) == pc[c] = "done"

Finished(c) == pc[c] \in {"done", "threw"}

ColonCount(a) == Cardinality(Positions(a, ":"))

\* the group:artifact shape of the data model: exactly one colon
WellFormedArtifact(p) == IsString(p.artifact) /\ ColonCount(p.artifact.value) = 1

\* a RecipeConfig: the three required fields are strings
ValidConfig(p) == IsString(p.recipeName) /\ IsString(p.recipeDisplayName) /\ IsString(p.artifact)

Labels(o) == [i \in 1..Len(o) |-> o[i].label]

IsCode(e) == e.kind = "code"

\* the body of the tab with the given value
BodyOf(o, value) == o[CHOOSE i \in 1..Len(o) : o[i].value = value].body

\* the code blocks of a body, in order
CodeBlocks(body) == SelectSeq(body, IsCode)

\* some paragraph or code block of the body holds t
BodyContains(body, t) == \E i \in 1..Len(body) : Contains(body[i].text, t)

(***************************************************************************)
(* C1 as stated: a render of a config with a well-formed artifact returns  *)
(* exactly five variants: dedicated runner, ad hoc build plugin,           *)
(* persistent manifest, ephemeral init script, declarative IDE.            *)
(***************************************************************************)
C1_FiveVariants ==
    \A c \in Callers :
        (Returned(c) /\ WellFormedArtifact(props[c]))
            => Labels(out[c]) = << "Moderne CLI", "Maven Command Line", "Maven POM",
                                   "Gradle init script", "IntelliJ IDEA Ultimate" >>

(***************************************************************************)
(* C1 amended: a render of a valid config with a well-formed artifact      *)
(* always returns, for every value of requiresYamlInstall, exactly six     *)
(* variants in this order: dedicated runner, ad hoc build plugin,          *)
(* persistent manifest, ephemeral init script, persistent build script,    *)
(* declarative IDE.                                                        *)
(***************************************************************************)
C1_SixVariants ==
    \A c \in Callers :
        (Finished(c) /\ ValidConfig(props[c]) /\ WellFormedArtifact(props[c]))
            => /\ Returned(c)
               /\ Labels(out[c]) = << "Moderne CLI", "Maven Command Line", "Maven POM",
                                      "Gradle init script", "Gradle", "IntelliJ IDEA Ultimate" >>

C1_Witness ==
    \E c \in Callers :
        /\ Returned(c) /\ ValidConfig(props[c]) /\ WellFormedArtifact(props[c])
        /\ props[c].requiresYamlInstall = JsBool(TRUE)
        /\ Len(out[c]) = 6

(***************************************************************************)
(* C2: a render whose artifact holds no colon fails with                   *)
(* MalformedCoordinateError and produces no variant.                       *)
(***************************************************************************)
C2_NoColonFails ==
    \A c \in Callers :
        (Finished(c) /\ ValidConfig(props[c]) /\ ColonCount(props[c].artifact.value) = 0)
            => /\ pc[c] = "threw"
               /\ err[c] = "MalformedCoordinateError"
               /\ out[c] = NoOutput

(***************************************************************************)
(* C3: an artifact G:A with exactly one colon splits into groupId = G, the *)
(* text before the colon, and artifactId = A, the text after it;           *)
(* "org.example:my-tool" gives ("org.example", "my-tool").                 *)
(***************************************************************************)
C3_SplitOneColon ==
    \A c \in Callers :
        (pc[c] \in {"split", "built"} /\ WellFormedArtifact(props[c]))
            => LET a == props[c].artifact.value
                   k == CHOOSE i \in 1..Len(a) : CharAt(a, i) = ":"
                   f == frame[c]
               IN  /\ f.groupId = JsString(SubSeq(a, 1, k - 1))
                   /\ f.artifactId = JsString(SubSeq(a, k + 1, Len(a)))
                   /\ a = "org.example:my-tool"
                        => f.groupId = JsString("org.example") /\ f.artifactId = JsString("my-tool")

C3_Witness ==
    \E c \in Callers :
        /\ pc[c] = "split"
        /\ props[c].artifact = JsString("org.example:my-tool")
        /\ frame[c].artifactId = JsString("my-tool")

(***************************************************************************)
(* C4 as stated: the body of the ad hoc build-plugin variant is exactly    *)
(* the one mvn command line, and nothing else.                             *)
(***************************************************************************)
C4_BodyIsOnlyTheCommand ==
    \A c \in Callers :
        Returned(c)
            => LET body == BodyOf(out[c], "maven-command-line")
               IN  /\ Len(body) = 1
                   /\ body[1].text =
                        "mvn -U org.openrewrite.maven:rewrite-maven-plugin:run -Drewrite.recipeArtifactCoordinates="
                        \o props[c].artifact.value \o ":RELEASE -Drewrite.activeRecipes="
                        \o props[c].recipeName.value \o " -Drewrite.exportDatatables=true"

(***************************************************************************)
(* C4 amended: the body of the ad hoc build-plugin variant is one fixed    *)
(* paragraph (Maven must be installed) followed by exactly one code        *)
(* snippet, and that snippet is exactly the single line                    *)
(* mvn -U ...:run -Drewrite.recipeArtifactCoordinates=<artifact>:RELEASE   *)
(* -Drewrite.activeRecipes=<recipeName> -Drewrite.exportDatatables=true    *)
(* with artifact and recipeName interpolated verbatim.                     *)
(***************************************************************************)
C4_ParagraphThenCommand ==
    \A c \in Callers :
        Returned(c)
            => LET body == BodyOf(out[c], "maven-command-line")
                   a == props[c].artifact.value
                   r == props[c].recipeName.value
               IN  /\ Len(body) = 2
                   /\ body[1] = Prose("You will need to have Maven installed on your machine before you can run the following command.")
                   /\ IsCode(body[2])
                   /\ body[2].text =
                        "mvn -U org.openrewrite.maven:rewrite-maven-plugin:run -Drewrite.recipeArtifactCoordinates="
                        \o a \o ":RELEASE -Drewrite.activeRecipes=" \o r \o " -Drewrite.exportDatatables=true"
                   /\ Positions(body[2].text, "\n") = {}
                   /\ (a = "org.openrewrite.recipe:rewrite-testing-frameworks"
                           /\ r = "org.openrewrite.java.testing.junit5.JUnit4to5Migration")
                        => body[2].text = "mvn -U org.openrewrite.maven:rewrite-maven-plugin:run -Drewrite.recipeArtifactCoordinates=org.openrewrite.recipe:rewrite-testing-frameworks:RELEASE -Drewrite.activeRecipes=org.openrewrite.java.testing.junit5.JUnit4to5Migration -Drewrite.exportDatatables=true"

C4_Witness ==
    \E c \in Callers :
        /\ Returned(c)
        /\ props[c].artifact = JsString("org.openrewrite.recipe:rewrite-testing-frameworks")
        /\ props[c].recipeName = JsString("org.openrewrite.java.testing.junit5.JUnit4to5Migration")
        /\ props[c].requiresYamlInstall = JsBool(FALSE)
        /\ Len(CodeBlocks(BodyOf(out[c], "maven-command-line"))) = 1

(***************************************************************************)
(* C5: the dedicated-runner variant holds the line                         *)
(* mod config recipes yaml install /path/to/your/rewrite.yml               *)
(* exactly when requiresYamlInstall is true; the line then comes directly  *)
(* after the jar install line, in the same snippet, and before the run     *)
(* command; its path is the same for every config.                         *)
(***************************************************************************)
C5_YamlInstallLine ==
    \A c \in Callers :
        Returned(c)
            => LET body == BodyOf(out[c], "moderne-cli")
                   code == CodeBlocks(body)
                   a == props[c].artifact.value
                   jar == "mod config recipes jar install " \o a \o ":LATEST"
                   yaml == "mod config recipes yaml install /path/to/your/rewrite.yml"
               IN  /\ BodyContains(body, yaml) <=> props[c].requiresYamlInstall = JsBool(TRUE)
                   /\ Len(code) = 3
                   /\ code[2].text =
                        IF props[c].requiresYamlInstall = JsBool(TRUE) THEN jar \o "\n" \o yaml ELSE jar
                   /\ code[3].text = "mod run ~/workspace/ --recipe " \o props[c].recipeName.value
                   /\ ~Contains(code[1].text, yaml) /\ ~Contains(code[3].text, yaml)

C5_Witness ==
    \E c \in Callers :
        /\ Returned(c)
        /\ props[c].requiresYamlInstall = JsBool(TRUE)
        /\ BodyContains(BodyOf(out[c], "moderne-cli"), "\nmod config recipes yaml install /path/to/your/rewrite.yml")

(***************************************************************************)
(* C6: with requiresYamlInstall true the declarative IDE variant is two    *)
(* static paragraphs: no code snippet, and neither the wrapper name nor    *)
(* the description in effect (derived or supplied); a rewrite.yml snippet  *)
(* is part of the output only when requiresYamlInstall is false.           *)
(***************************************************************************)
C6_InstalledBodyIsStatic ==
    \A c \in Callers :
        Returned(c)
            => LET p == props[c]
                   body == BodyOf(out[c], "intelliJ")
                   wrapper == IF Truthy(p.intellijWrapperName) THEN p.intellijWrapperName.value
                              ELSE deriveWrapperName(p.recipeDisplayName.value)
                   descr == IF Truthy(p.intellijDescription) THEN p.intellijDescription.value
                            ELSE deriveDescription(p.recipeDisplayName)
               IN  /\ p.requiresYamlInstall = JsBool(TRUE)
                        => /\ CodeBlocks(body) = << >>
                           /\ body = << Prose("You can run OpenRewrite recipes directly from IntelliJ IDEA, after installing the OpenRewrite plugin."),
                                        Prose("After adding the rewrite.yml file shown above to your project, you should see a run icon in the left margin offering to run the recipe.") >>
                           /\ ~BodyContains(body, wrapper)
                           /\ ~BodyContains(body, descr)
                   /\ (\E i \in 1..Len(out[c]) : \E j \in 1..Len(out[c][i].body) :
                            /\ IsCode(out[c][i].body[j])
                            /\ out[c][i].body[j].title = "rewrite.yml")
                        => p.requiresYamlInstall # JsBool(TRUE)

C6_Witness ==
    \E c \in Callers :
        /\ Returned(c)
        /\ props[c].requiresYamlInstall = JsBool(TRUE)
        /\ props[c].intellijWrapperName = JsString("com.example.CustomWrapper")
        /\ props[c].intellijDescription = Undefined
        /\ Len(BodyOf(out[c], "intelliJ")) = 2

(***************************************************************************)
(* C7: with requiresYamlInstall false and neither intellijWrapperName nor  *)
(* intellijDescription supplied, the declarative IDE variant's body holds  *)
(* the derived wrapper name and the derived description.                   *)
(***************************************************************************)
C7_DerivedDefaultsShown ==
    \A c \in Callers :
        (/\ Returned(c)
         /\ props[c].requiresYamlInstall # JsBool(TRUE)
         /\ props[c].intellijWrapperName = Undefined
         /\ props[c].intellijDescription = Undefined)
            => LET body == BodyOf(out[c], "intelliJ")
                   d == props[c].recipeDisplayName
               IN  /\ BodyContains(body, "\nname: " \o deriveWrapperName(d.value) \o "\n")
                   /\ BodyContains(body, "\ndescription: " \o deriveDescription(d) \o "\n")

C7_Witness ==
    \E c \in Callers :
        /\ Returned(c)
        /\ props[c].requiresYamlInstall = JsBool(FALSE)
        /\ props[c].intellijWrapperName = Undefined
        /\ props[c].intellijDescription = Undefined
        /\ props[c].recipeDisplayName = JsString("Adopt AssertJ")
        /\ BodyContains(BodyOf(out[c], "intelliJ"), "name: com.github.timtebeek.AdoptAssertJ\n")

(***************************************************************************)
(* C8: the derived wrapper name is "com.github.timtebeek." followed by the *)
(* display name's non-whitespace characters, all of them and in their      *)
(* order, with every whitespace character gone; deriving never fails on a  *)
(* string; "" gives the bare prefix and "Adopt AssertJ" gives              *)
(* "com.github.timtebeek.AdoptAssertJ".                                    *)
(***************************************************************************)
C8_WrapperNameDerivation ==
    \A c \in Callers :
        /\ (/\ pc[c] \in {"derived", "split", "built"}
            /\ ~Truthy(props[c].intellijWrapperName))
            => LET d == props[c].recipeDisplayName.value
                   w == frame[c].wrapperName
                   n == Len("com.github.timtebeek.")
                   rest == SubSeq(w, n + 1, Len(w))
                   kept == {i \in 1..Len(d) : CharAt(d, i) \notin Whitespace}
               IN  /\ SubSeq(w, 1, n) = "com.github.timtebeek."
                   /\ Len(rest) = Cardinality(kept)
                   /\ \A i \in kept :
                        CharAt(rest, Cardinality({j \in kept : j <= i})) = CharAt(d, i)
                   /\ \A i \in 1..Len(rest) : CharAt(rest, i) \notin Whitespace
                   /\ d = "" => w = "com.github.timtebeek."
                   /\ d = "Adopt AssertJ" => w = "com.github.timtebeek.AdoptAssertJ"
        /\ (pc[c] = "threw" /\ IsString(props[c].recipeDisplayName))
            => ~IsString(props[c].artifact)

C8_Witness ==
    \E c \in Callers :
        /\ pc[c] = "derived"
        /\ props[c].intellijWrapperName = Undefined
        /\ props[c].recipeDisplayName = JsString(" JUnit\t6  Best\nPractices ")
        /\ frame[c].wrapperName = "com.github.timtebeek.JUnit6BestPractices"

(***************************************************************************)
(* C9 as stated: when intellijWrapperName and intellijDescription are both *)
(* supplied, the IDE snippet's name line carries the supplied wrapper      *)
(* name, its description line the supplied description, and a derived      *)
(* value that differs from the supplied one is nowhere in the snippet.     *)
(***************************************************************************)
C9_SuppliedSuppressDerivation ==
    \A c \in Callers :
        (/\ Returned(c)
         /\ props[c].requiresYamlInstall # JsBool(TRUE)
         /\ IsString(props[c].recipeDisplayName)
         /\ IsString(props[c].intellijWrapperName)
         /\ IsString(props[c].intellijDescription))
            => LET body == BodyOf(out[c], "intelliJ")
                   w == props[c].intellijWrapperName.value
                   e == props[c].intellijDescription.value
                   dw == deriveWrapperName(props[c].recipeDisplayName.value)
                   de == deriveDescription(props[c].recipeDisplayName)
               IN  /\ BodyContains(body, "\nname: " \o w \o "\ndisplayName: ")
                   /\ BodyContains(body, "\ndescription: " \o e \o "\nrecipeList:")
                   /\ dw # w => ~BodyContains(body, dw)
                   /\ de # e => ~BodyContains(body, de)

(***************************************************************************)
(* C9 amended: when intellijWrapperName and intellijDescription are both   *)
(* supplied as non-empty strings, nothing is derived: the wrapper name and *)
(* the description in effect are the supplied values, and the IDE snippet  *)
(* is the fixed document whose name line carries the supplied wrapper      *)
(* name, whose description line carries the supplied description, and      *)
(* whose other lines hold only recipeDisplayName and recipeName.  (A       *)
(* supplied empty string counts as absent.)                                *)
(***************************************************************************)
C9_NonEmptySuppliedSuppressDerivation ==
    \A c \in Callers :
        (/\ pc[c] # "idle"
         /\ Truthy(props[c].intellijWrapperName)
         /\ Truthy(props[c].intellijDescription))
            => LET w == props[c].intellijWrapperName.value
                   e == props[c].intellijDescription.value
               IN  /\ pc[c] = "threw" => ~IsString(props[c].artifact)
                   /\ pc[c] \in {"derived", "split", "built"}
                        => frame[c].wrapperName = w /\ frame[c].description = e
                   /\ (Returned(c) /\ props[c].requiresYamlInstall # JsBool(TRUE))
                        => CodeBlocks(BodyOf(out[c], "intelliJ")) =
                             << CodeBlock("yaml", "rewrite.yml",
                                    "---\ntype: specs.openrewrite.org/v1beta/recipe\nname: " \o w
                                    \o "\ndisplayName: " \o JsToString(props[c].recipeDisplayName)
                                    \o "\ndescription: " \o e
                                    \o "\nrecipeList:\n  - " \o props[c].recipeName.value) >>

C9_Witness ==
    \E c \in Callers :
        /\ Returned(c)
        /\ props[c].requiresYamlInstall = JsBool(FALSE)
        /\ props[c].recipeDisplayName = JsString("Adopt AssertJ")
        /\ props[c].intellijWrapperName = JsString("com.example.CustomWrapper")
        /\ props[c].intellijDescription = JsString("Upgrade your tests to Java 21.")
        /\ BodyContains(BodyOf(out[c], "intelliJ"), "name: com.example.CustomWrapper\n")

(***************************************************************************)
(* C10: two render calls with equal props end alike, with the same tab     *)
(* list or the same error, whatever calls came before or ran between.      *)
(***************************************************************************)
C10_EqualPropsEqualOutput ==
    \A c1, c2 \in Callers :
        (Finished(c1) /\ Finished(c2) /\ props[c1] = props[c2])
            => pc[c1] = pc[c2] /\ out[c1] = out[c2] /\ err[c1] = err[c2]

C10_Witness ==
    \E c1, c2 \in Callers :
        /\ c1 # c2
        /\ Returned(c1) /\ Returned(c2)
        /\ props[c1] = props[c2]
        /\ out[c1] # NoOutput

\* the two props differ in requiresYamlInstall at most
SameButFlag(p, q) == [p EXCEPT !.requiresYamlInstall = q.requiresYamlInstall] = q

\* the positions of the declarative IDE variant in a tab list
IdeAt(o) == {i \in 1..Len(o) : o[i].value = "intelliJ"}

(***************************************************************************)
(* C11: two renders whose props differ only in requiresYamlInstall both    *)
(* hold the declarative IDE variant, at the same position and under the    *)
(* same label; the two variants differ in their bodies only.               *)
(***************************************************************************)
C11_IdeSlotInvariant ==
    \A c1, c2 \in Callers :
        (Returned(c1) /\ Returned(c2) /\ SameButFlag(props[c1], props[c2]))
            => /\ Cardinality(IdeAt(out[c1])) = 1
               /\ IdeAt(out[c1]) = IdeAt(out[c2])
               /\ Len(out[c1]) = Len(out[c2])
               /\ \A i \in IdeAt(out[c1]) :
                    /\ i = Len(out[c1])
                    /\ out[c1][i].label = out[c2][i].label
                    /\ [out[c1][i] EXCEPT !.body = out[c2][i].body] = out[c2][i]

C11_Witness ==
    \E c1, c2 \in Callers :
        /\ Returned(c1) /\ Returned(c2)
        /\ SameButFlag(props[c1], props[c2])
        /\ props[c1].requiresYamlInstall = JsBool(TRUE)
        /\ props[c2].requiresYamlInstall = JsBool(FALSE)
        /\ BodyOf(out[c1], "intelliJ") # BodyOf(out[c2], "intelliJ")

(***************************************************************************)
(* C12: a render whose props omit requiresYamlInstall ends exactly as the  *)
(* render of the same props with requiresYamlInstall = false.              *)
(***************************************************************************)
C12_FlagDefaultsToFalse ==
    \A c1, c2 \in Callers :
        (/\ Finished(c1) /\ Finished(c2)
         /\ SameButFlag(props[c1], props[c2])
         /\ props[c1].requiresYamlInstall = Undefined
         /\ props[c2].requiresYamlInstall = JsBool(FALSE))
            => pc[c1] = pc[c2] /\ out[c1] = out[c2] /\ err[c1] = err[c2]

C12_Witness ==
    \E c1, c2 \in Callers :
        /\ Returned(c1) /\ Returned(c2)
        /\ SameButFlag(props[c1], props[c2])
        /\ props[c1].requiresYamlInstall = Undefined
        /\ props[c2].requiresYamlInstall = JsBool(FALSE)
        /\ Len(CodeBlocks(BodyOf(out[c1], "intelliJ"))) = 1

(***************************************************************************)
(* C13: a render whose recipeName, recipeDisplayName and artifact are      *)
(* strings, the artifact well-formed, never throws, whichever of           *)
(* intellijWrapperName, intellijDescription and requiresYamlInstall are    *)
(* absent; the absent ones take their defaults (derived name, derived      *)
(* description, false).                                                    *)
(***************************************************************************)
C13_ValidConfigsNeverFail ==
    \A c \in Callers :
        (pc[c] # "idle" /\ ValidConfig(props[c]) /\ WellFormedArtifact(props[c]))
            => LET p == props[c]
                   f == frame[c]
                   d == p.recipeDisplayName.value
               IN  /\ pc[c] # "threw"
                   /\ err[c] = NoError
                   /\ pc[c] \in {"entered", "derived", "split", "built"}
                        => f.requiresYamlInstall =
                             (IF p.requiresYamlInstall = Undefined THEN JsBool(FALSE)
                              ELSE p.requiresYamlInstall)
                   /\ pc[c] \in {"derived", "split", "built"}
                        => /\ p.intellijWrapperName = Undefined
                                => f.wrapperName = deriveWrapperName(d)
                           /\ p.intellijDescription = Undefined
                                => f.description = d \o " and apply best practices to assertions."
                   /\ Returned(c) => Len(out[c]) > 0

C13_Witness ==
    \E c \in Callers :
        /\ Returned(c)
        /\ ValidConfig(props[c]) /\ WellFormedArtifact(props[c])
        /\ props[c].intellijWrapperName = Undefined
        /\ props[c].intellijDescription = Undefined
        /\ props[c].requiresYamlInstall = Undefined
        /\ err[c] = NoError

\* how caller c's call ended
Outcome(c) == [pc |-> pc[c], out |-> out[c], err |-> err[c]]

\* the step leaves every caller but c as it was
OnlyTouches(c) ==
    \A d \in Callers \ {c} :
        /\ pc'[d] = pc[d] /\ props'[d] = props[d] /\ frame'[d] = frame[d]
        /\ out'[d] = out[d] /\ err'[d] = err[d]

\* a call run alone ends as RenderAlone says
AloneAsRenderAlone == \A c \in Callers : Finished(c) => Outcome(c) = RenderAlone(props[c])

(***************************************************************************)
(* C14: with several callers rendering, their steps interleaved in any     *)
(* order, every step touches the state of one call only, and every call    *)
(* ends as the same call run alone ends.                                   *)
(***************************************************************************)
C14_Reentrant ==
    /\ [](\A c \in Callers : Finished(c) => Outcome(c) = RenderAlone(props[c]))
    /\ [][\E c \in Callers : OnlyTouches(c)]_vars

C14_Witness ==
    \E c1, c2 \in Callers :
        /\ Returned(c1)
        /\ pc[c2] \in {"derived", "split", "built"}
        /\ props[c1] # props[c2]
        /\ Outcome(c1) = RenderAlone(props[c1])

(***************************************************************************)
(* C15: the dedicated-runner variant's body holds, in this order, the      *)
(* build command mod build ~/workspace/ (the same for every config), the   *)
(* install command mod config recipes jar install <artifact>:LATEST, and   *)
(* the run command mod run ~/workspace/ --recipe <recipeName>.             *)
(***************************************************************************)
C15_BuildInstallRun ==
    \A c \in Callers :
        Returned(c)
            => LET body == BodyOf(out[c], "moderne-cli")
                   build == "mod build ~/workspace/"
                   install == "mod config recipes jar install " \o props[c].artifact.value \o ":LATEST"
                   run == "mod run ~/workspace/ --recipe " \o props[c].recipeName.value
               IN  \E i, j, k \in 1..Len(body) :
                        /\ i < j /\ j < k
                        /\ IsCode(body[i]) /\ body[i].text = build
                        /\ IsCode(body[j]) /\ StartsWithAt(body[j].text, 1, install)
                        /\ (Len(body[j].text) = Len(install)
                                \/ CharAt(body[j].text, Len(install) + 1) = "\n")
                        /\ IsCode(body[k]) /\ body[k].text = run
                        /\ \A m \in 1..Len(body) : IsCode(body[m]) => m \in {i, j, k}

C15_Witness ==
    \E c \in Callers :
        /\ Returned(c)
        /\ props[c].artifact = JsString("org.example:my-tool")
        /\ BodyContains(BodyOf(out[c], "moderne-cli"), "mod config recipes jar install org.example:my-tool:LATEST")
        /\ BodyContains(BodyOf(out[c], "moderne-cli"), "mod build ~/workspace/")

\* the first position at which t occurs in s, 0 when it does not
IndexOf(s, t) ==
    LET at == {i \in 1..(Len(s) - Len(t) + 1) : SubSeq(s, i, i + Len(t) - 1) = t}
    IN  IF at = {} THEN 0 ELSE CHOOSE i \in at : \A j \in at : i <= j

\* how often t occurs in s
Occurrences(s, t) ==
    Cardinality({i \in 1..(Len(s) - Len(t) + 1) : SubSeq(s, i, i + Len(t) - 1) = t})

\* the text of s from the one opening tag to the one closing tag, "" when
\* the element is not there exactly once
ElementOf(s, tag) ==
    LET open == "<" \o tag \o ">"
        close == "</" \o tag \o ">"
    IN  IF /\ Occurrences(s, open) = 1 /\ Occurrences(s, close) = 1
           /\ IndexOf(s, open) < IndexOf(s, close)
        THEN SubSeq(s, IndexOf(s, open), IndexOf(s, close) + Len(close) - 1)
        ELSE ""

\* the text of the code block with the given title in a body
SnippetOf(body, title) ==
    LET at == {i \in 1..Len(body) : IsCode(body[i]) /\ body[i].title = title}
    IN  IF at = {} THEN "" ELSE body[CHOOSE i \in at : TRUE].text

(***************************************************************************)
(* C16: for a well-formed artifact G:A the persistent-manifest snippet     *)
(* has one plugin declaration holding one configuration block and one      *)
(* dependencies block; the dependency's groupId element holds G and its    *)
(* artifactId element holds A; the configuration block holds the           *)
(* export-tables flag set to true and recipeName as its only active        *)
(* recipe.                                                                 *)
(***************************************************************************)
C16_ManifestLayout ==
    \A c \in Callers :
        (Returned(c) /\ WellFormedArtifact(props[c]))
            => LET a == props[c].artifact.value
                   k == IndexOf(a, ":")
                   G == SubSeq(a, 1, k - 1)
                   A == SubSeq(a, k + 1, Len(a))
                   pom == SnippetOf(BodyOf(out[c], "maven"), "pom.xml")
                   plugin == ElementOf(pom, "plugin")
                   configuration == ElementOf(plugin, "configuration")
                   dependency == ElementOf(ElementOf(plugin, "dependencies"), "dependency")
                   recipes == ElementOf(configuration, "activeRecipes")
               IN  /\ plugin # "" /\ configuration # "" /\ dependency # "" /\ recipes # ""
                   /\ ElementOf(dependency, "groupId") = "<groupId>" \o G \o "</groupId>"
                   /\ ElementOf(dependency, "artifactId") = "<artifactId>" \o A \o "</artifactId>"
                   /\ ElementOf(recipes, "recipe") =
                        "<recipe>" \o props[c].recipeName.value \o "</recipe>"
                   /\ ElementOf(configuration, "exportDatatables") =
                        "<exportDatatables>true</exportDatatables>"
                   /\ ~Contains(configuration, "<dependencies>")
                   /\ ~Contains(ElementOf(plugin, "dependencies"), "<configuration>")

C16_Witness ==
    \E c \in Callers :
        /\ Returned(c)
        /\ props[c].artifact = JsString("org.example:my-tool")
        /\ Contains(SnippetOf(BodyOf(out[c], "maven"), "pom.xml"), "<groupId>org.example</groupId>")
        /\ Contains(SnippetOf(BodyOf(out[c], "maven"), "pom.xml"), "<artifactId>my-tool</artifactId>")

(***************************************************************************)
(* C17: the ephemeral init-script snippet is a constant scaffold with two  *)
(* holes, filled with the whole artifact string (unsplit) and recipeName,  *)
(* both verbatim; the scaffold always declares the fallback that adds the  *)
(* central repository when no repository is declared.                      *)
(***************************************************************************)
C17_InitScriptScaffold ==
    \A c \in Callers :
        Returned(c)
            => LET init == SnippetOf(BodyOf(out[c], "gradle-init-script"), "init.gradle")
                   head == "initscript {\n    repositories {\n        maven { url \"https://plugins.gradle.org/m2\" }\n    }\n    dependencies { classpath(\"org.openrewrite:plugin:latest.release\") }\n}\nrootProject {\n    plugins.apply(org.openrewrite.gradle.RewritePlugin)\n    dependencies {\n        rewrite(\""
                   middle == ":latest.release\")\n    }\n    rewrite {\n        activeRecipe(\""
                   tail == "\")\n        setExportDatatables(true)\n    }\n    afterEvaluate {\n        if (repositories.isEmpty()) {\n            repositories {\n                mavenCentral()\n            }\n        }\n    }\n}"
               IN  /\ init = head \o props[c].artifact.value \o middle
                                  \o props[c].recipeName.value \o tail
                   /\ Contains(init, "if (repositories.isEmpty()) {\n            repositories {\n                mavenCentral()\n            }\n        }")

C17_Witness ==
    \E c \in Callers :
        /\ Returned(c)
        /\ props[c].artifact = JsString("g:a:1.0")
        /\ Contains(SnippetOf(BodyOf(out[c], "gradle-init-script"), "init.gradle"),
                    "rewrite(\"g:a:1.0:latest.release\")")

(***************************************************************************)
(* C18: for an artifact with at least one colon the split loses nothing:   *)
(* groupId, a colon and artifactId put together give the artifact back, so *)
(* the persistent manifest names the coordinate the other snippets name.   *)
(***************************************************************************)
C18_SplitLosesNothing ==
    \A c \in Callers :
        (/\ pc[c] \in {"split", "built"}
         /\ ValidConfig(props[c])
         /\ ColonCount(props[c].artifact.value) >= 1)
            => JsToString(frame[c].groupId) \o ":" \o JsToString(frame[c].artifactId)
                    = props[c].artifact.value

(***************************************************************************)
(* C19: the default description is the display name, unchanged and with    *)
(* its whitespace kept, followed by the one fixed clause                   *)
(* " and apply best practices to assertions.".                             *)
(***************************************************************************)
C19_DescriptionDerivation ==
    \A c \in Callers :
        (/\ pc[c] \in {"derived", "split", "built"}
         /\ IsString(props[c].recipeDisplayName)
         /\ ~Truthy(props[c].intellijDescription))
            => LET d == props[c].recipeDisplayName.value
                   e == frame[c].description
                   clause == " and apply best practices to assertions."
               IN  /\ Len(e) = Len(d) + Len(clause)
                   /\ SubSeq(e, 1, Len(d)) = d
                   /\ SubSeq(e, Len(d) + 1, Len(e)) = clause
                   /\ d = "Adopt AssertJ"
                        => e = "Adopt AssertJ and apply best practices to assertions."

C19_Witness ==
    \E c \in Callers :
        /\ pc[c] = "derived"
        /\ props[c].intellijDescription = Undefined
        /\ props[c].recipeDisplayName = JsString(" JUnit\t6  Best\nPractices ")
        /\ frame[c].description = " JUnit\t6  Best\nPractices  and apply best practices to assertions."

(***************************************************************************)
(* C20: the recipe name is interpolated verbatim.  In every returned       *)
(* render, whatever string the recipe name is, the run command of the      *)
(* dedicated runner, the ad hoc Maven command, the pom.xml, the init       *)
(* script, the build.gradle and, when it is emitted, the rewrite.yml hold  *)
(* the recipe name as one unmodified run of characters, at the place where *)
(* the snippet names the recipe.                                           *)
(***************************************************************************)
C20_RecipeNameVerbatim ==
    \A c \in Callers :
        (Returned(c) /\ IsString(props[c].recipeName))
            => LET r == props[c].recipeName.value
                   o == out[c]
                   run == CodeBlocks(BodyOf(o, "moderne-cli"))[3].text
                   cli == CodeBlocks(BodyOf(o, "maven-command-line"))[1].text
                   ide == BodyOf(o, "intelliJ")
               IN  /\ Contains(run, "--recipe " \o r)
                   /\ SubSeq(run, Len(run) - Len(r) + 1, Len(run)) = r
                   /\ Contains(cli, "-Drewrite.activeRecipes=" \o r \o " -D")
                   /\ Contains(SnippetOf(BodyOf(o, "maven"), "pom.xml"),
                               "<recipe>" \o r \o "</recipe>")
                   /\ Contains(SnippetOf(BodyOf(o, "gradle-init-script"), "init.gradle"),
                               "activeRecipe(\"" \o r \o "\")")
                   /\ Contains(SnippetOf(BodyOf(o, "gradle"), "build.gradle"),
                               "activeRecipe(\"" \o r \o "\")")
                   /\ SnippetOf(ide, "rewrite.yml") # ""
                        => LET yml == SnippetOf(ide, "rewrite.yml")
                           IN  /\ Contains(yml, "recipeList:\n  - " \o r)
                               /\ SubSeq(yml, Len(yml) - Len(r) + 1, Len(yml)) = r

C20_Witness ==
    \E c \in Callers :
        /\ Returned(c)
        /\ props[c].recipeName = JsString("R <")
        /\ props[c].requiresYamlInstall = Undefined
        /\ CodeBlocks(BodyOf(out[c], "moderne-cli"))[3].text = "mod run ~/workspace/ --recipe R <"
        /\ Contains(SnippetOf(BodyOf(out[c], "intelliJ"), "rewrite.yml"), "recipeList:\n  - R <")

\* the rewrite.yml snippet of a returned tab list, "" when there is none
YamlOf(o) == SnippetOf(BodyOf(o, "intelliJ"), "rewrite.yml")

\* s begins with t
StartsWith(s, t) == Len(t) <= Len(s) /\ SubSeq(s, 1, Len(t)) = t

\* s ends with t
EndsWith(s, t) == Len(t) <= Len(s) /\ SubSeq(s, Len(s) - Len(t) + 1, Len(s)) = t

\* the document up to the display name line, for wrapper name w
YamlHead(w) == "---\ntype: specs.openrewrite.org/v1beta/recipe\nname: " \o w \o "\ndisplayName: "

\* the document from the description line on, for description e and recipe r
YamlTail(e, r) == "\ndescription: " \o e \o "\nrecipeList:\n  - " \o r

(***************************************************************************)
(* C21 as stated: whenever intellijWrapperName is supplied, as any string, *)
(* the empty one included, the name line of the IDE snippet carries the    *)
(* supplied value; whenever intellijDescription is supplied, as any        *)
(* string, the description line carries the supplied value.                *)
(***************************************************************************)
C21_SuppliedAlwaysWins ==
    \A c \in Callers :
        (/\ Returned(c)
         /\ props[c].requiresYamlInstall # JsBool(TRUE)
         /\ ValidConfig(props[c]))
            => LET p == props[c]
                   yml == YamlOf(out[c])
               IN  /\ IsString(p.intellijWrapperName)
                        => StartsWith(yml, YamlHead(p.intellijWrapperName.value))
                   /\ IsString(p.intellijDescription)
                        => EndsWith(yml, YamlTail(p.intellijDescription.value, p.recipeName.value))

(***************************************************************************)
(* C21 amended: whenever intellijWrapperName is supplied as a non-empty    *)
(* string the name line of the IDE snippet carries the supplied value, and *)
(* whenever intellijDescription is supplied as a non-empty string the      *)
(* description line carries the supplied value; a field that is omitted or *)
(* supplied as the empty string gets the derived value.                    *)
(***************************************************************************)
C21_NonEmptySuppliedWins ==
    \A c \in Callers :
        (/\ Returned(c)
         /\ props[c].requiresYamlInstall # JsBool(TRUE)
         /\ ValidConfig(props[c]))
            => LET p == props[c]
                   d == p.recipeDisplayName.value
                   w == p.intellijWrapperName
                   e == p.intellijDescription
                   yml == YamlOf(out[c])
               IN  /\ (IsString(w) /\ w.value # "") => StartsWith(yml, YamlHead(w.value))
                   /\ (w = Undefined \/ w = JsString(""))
                        => StartsWith(yml, YamlHead("com.github.timtebeek." \o ReplaceWhitespaceRuns(d)))
                   /\ (IsString(e) /\ e.value # "") => EndsWith(yml, YamlTail(e.value, p.recipeName.value))
                   /\ (e = Undefined \/ e = JsString(""))
                        => EndsWith(yml, YamlTail(d \o " and apply best practices to assertions.",
                                                  p.recipeName.value))

C21_Witness ==
    \E c \in Callers :
        /\ Returned(c)
        /\ props[c].requiresYamlInstall = JsBool(FALSE)
        /\ props[c].recipeDisplayName = JsString("Adopt AssertJ")
        /\ props[c].intellijWrapperName = JsString("")
        /\ props[c].intellijDescription = JsString("Upgrade your tests to Java 21.")
        /\ StartsWith(YamlOf(out[c]), YamlHead("com.github.timtebeek.AdoptAssertJ"))
        /\ Contains(YamlOf(out[c]), "\ndescription: Upgrade your tests to Java 21.\n")

\* the wrapper name in effect for props p
EffectiveWrapperName(p) ==
    IF Truthy(p.intellijWrapperName) THEN p.intellijWrapperName.value
    ELSE "com.github.timtebeek." \o ReplaceWhitespaceRuns(p.recipeDisplayName.value)

\* the description in effect for props p
EffectiveDescription(p) ==
    IF Truthy(p.intellijDescription) THEN p.intellijDescription.value
    ELSE p.recipeDisplayName.value \o " and apply best practices to assertions."

(***************************************************************************)
(* C22: when requiresYamlInstall is false (or omitted) the IDE tab holds   *)
(* one rewrite.yml snippet, a document made of, in this order and with     *)
(* nothing else: the document marker and the fixed type line, the line     *)
(* name: <wrapper name>, the line displayName: <recipeDisplayName>, the    *)
(* line description: <description>, and the key recipeList: with the one   *)
(* entry "  - <recipeName>".                                               *)
(***************************************************************************)
C22_IdeDocumentLayout ==
    \A c \in Callers :
        (/\ Returned(c)
         /\ props[c].requiresYamlInstall # JsBool(TRUE)
         /\ ValidConfig(props[c]))
            => LET p == props[c]
                   blocks == CodeBlocks(BodyOf(out[c], "intelliJ"))
                   lines == << "---",
                               "type: specs.openrewrite.org/v1beta/recipe",
                               "name: " \o EffectiveWrapperName(p),
                               "displayName: " \o p.recipeDisplayName.value,
                               "description: " \o EffectiveDescription(p),
                               "recipeList:",
                               "  - " \o p.recipeName.value >>
               IN  /\ Len(blocks) = 1
                   /\ blocks[1].language = "yaml"
                   /\ blocks[1].title = "rewrite.yml"
                   /\ blocks[1].text =
                        lines[1] \o "\n" \o lines[2] \o "\n" \o lines[3] \o "\n" \o lines[4] \o "\n"
                        \o lines[5] \o "\n" \o lines[6] \o "\n" \o lines[7]
                   /\ Occurrences(blocks[1].text, "\nrecipeList:\n") >= 1
                   /\ Occurrences(p.recipeName.value, "\n") = 0
                        => EndsWith(blocks[1].text, "\nrecipeList:\n  - " \o p.recipeName.value)

C22_Witness ==
    \E c \in Callers :
        /\ Returned(c)
        /\ props[c].requiresYamlInstall = JsBool(FALSE)
        /\ props[c].intellijWrapperName = Undefined
        /\ props[c].intellijDescription = Undefined
        /\ props[c].recipeDisplayName = JsString("Adopt AssertJ")
        /\ props[c].recipeName = JsString("com.github.timtebeek.Java21ForTests")
        /\ YamlOf(out[c]) =
             "---\ntype: specs.openrewrite.org/v1beta/recipe\nname: com.github.timtebeek.AdoptAssertJ\ndisplayName: Adopt AssertJ\ndescription: Adopt AssertJ and apply best practices to assertions.\nrecipeList:\n  - com.github.timtebeek.Java21ForTests"

\* the tabs of a tab list other than the dedicated-runner and the IDE tab
OtherTabs(o) == SelectSeq(o, LAMBDA t : t.value \notin {"moderne-cli", "intelliJ"})

(***************************************************************************)
(* C23: requiresYamlInstall changes only the dedicated-runner variant and  *)
(* the declarative IDE variant.  Two renders whose props differ only in    *)
(* that flag return the same labels in the same order, and their Maven     *)
(* command line, Maven POM, Gradle init script and Gradle variants, and    *)
(* any variant other than the dedicated-runner and the IDE one, are equal. *)
(***************************************************************************)
C23_FlagTouchesTwoVariants ==
    \A c1, c2 \in Callers :
        (Returned(c1) /\ Returned(c2) /\ SameButFlag(props[c1], props[c2]))
            => /\ Labels(out[c1]) = Labels(out[c2])
               /\ \A v \in {"maven-command-line", "maven", "gradle-init-script", "gradle"} :
                    BodyOf(out[c1], v) = BodyOf(out[c2], v)
               /\ OtherTabs(out[c1]) = OtherTabs(out[c2])
               /\ Len(OtherTabs(out[c1])) = Len(out[c1]) - 2

C23_Witness ==
    \E c1, c2 \in Callers :
        /\ Returned(c1) /\ Returned(c2)
        /\ SameButFlag(props[c1], props[c2])
        /\ props[c1].requiresYamlInstall = JsBool(TRUE)
        /\ props[c2].requiresYamlInstall = Undefined
        /\ BodyOf(out[c1], "moderne-cli") # BodyOf(out[c2], "moderne-cli")
        /\ BodyOf(out[c1], "maven-command-line") = BodyOf(out[c2], "maven-command-line")
        /\ Len(OtherTabs(out[c1])) = 4

\* the two props agree on recipeName, artifact and requiresYamlInstall
SameButNaming(p, q) ==
    /\ p.recipeName = q.recipeName
    /\ p.artifact = q.artifact
    /\ p.requiresYamlInstall = q.requiresYamlInstall

\* the tabs of a tab list other than the IDE tab
NonIdeTabs(o) == SelectSeq(o, LAMBDA t : t.value # "intelliJ")

(***************************************************************************)
(* C24: recipeDisplayName, intellijWrapperName and intellijDescription     *)
(* influence the declarative IDE variant only.  Two renders whose props    *)
(* agree on recipeName, artifact and requiresYamlInstall return the same   *)
(* Moderne CLI, Maven command line, Maven POM, Gradle init script and      *)
(* Gradle variants, whatever the other three props are.                    *)
(***************************************************************************)
C24_NamingTouchesIdeOnly ==
    \A c1, c2 \in Callers :
        (Returned(c1) /\ Returned(c2) /\ SameButNaming(props[c1], props[c2]))
            => /\ NonIdeTabs(out[c1]) = NonIdeTabs(out[c2])
               /\ Len(NonIdeTabs(out[c1])) = Len(out[c1]) - 1
               /\ \A v \in {"moderne-cli", "maven-command-line", "maven", "gradle-init-script", "gradle"} :
                    BodyOf(out[c1], v) = BodyOf(out[c2], v)

C24_Witness ==
    \E c1, c2 \in Callers :
        /\ Returned(c1) /\ Returned(c2)
        /\ SameButNaming(props[c1], props[c2])
        /\ props[c1].requiresYamlInstall = JsBool(FALSE)
        /\ props[c1].recipeDisplayName = JsString("Adopt AssertJ")
        /\ props[c2].recipeDisplayName = JsString("JUnit 6 Best Practices")
        /\ props[c1].intellijWrapperName # props[c2].intellijWrapperName
        /\ props[c1].intellijDescription # props[c2].intellijDescription
        /\ BodyOf(out[c1], "intelliJ") # BodyOf(out[c2], "intelliJ")
        /\ BodyOf(out[c1], "gradle") = BodyOf(out[c2], "gradle")

(***************************************************************************)
(* C25: when requiresYamlInstall is true the outcome of a render does not  *)
(* depend on recipeDisplayName, intellijWrapperName or                     *)
(* intellijDescription.  Two finished renders with the flag set whose      *)
(* props agree on recipeName and artifact end alike, with the same tab     *)
(* list or the same error, also when recipeDisplayName is missing.         *)
(***************************************************************************)
C25_InstalledOutcomeIgnoresNaming ==
    \A c1, c2 \in Callers :
        (/\ Finished(c1) /\ Finished(c2)
         /\ props[c1].requiresYamlInstall = JsBool(TRUE)
         /\ props[c2].requiresYamlInstall = JsBool(TRUE)
         /\ props[c1].recipeName = props[c2].recipeName
         /\ props[c1].artifact = props[c2].artifact)
            => pc[c1] = pc[c2] /\ out[c1] = out[c2] /\ err[c1] = err[c2]

\* the two props agree on the six fields the component declares
SameDeclared(p, q) ==
    /\ p.recipeName = q.recipeName
    /\ p.recipeDisplayName = q.recipeDisplayName
    /\ p.artifact = q.artifact
    /\ p.intellijWrapperName = q.intellijWrapperName
    /\ p.intellijDescription = q.intellijDescription
    /\ p.requiresYamlInstall = q.requiresYamlInstall

\* the page passes an attribute showIntelliJ
PassesShowIntelliJ(p) == "showIntelliJ" \in DOMAIN p

HasNames(c) == pc[c] \in {"derived", "split", "built"}

(***************************************************************************)
(* C27: the two defaults are resolved independently.  With only            *)
(* intellijWrapperName supplied the description is still the derived one,  *)
(* with only intellijDescription supplied the wrapper name is still the    *)
(* derived one, and two calls whose props differ only in one override      *)
(* choose the same value for the other field.                              *)
(***************************************************************************)
C27_DefaultsIndependent ==
    /\ \A c \in Callers :
        (HasNames(c) /\ IsString(props[c].recipeDisplayName))
            => LET p == props[c]
                   d == p.recipeDisplayName.value
               IN  /\ (Truthy(p.intellijWrapperName) /\ p.intellijDescription = Undefined)
                        => frame[c].description = d \o " and apply best practices to assertions."
                   /\ (Truthy(p.intellijDescription) /\ p.intellijWrapperName = Undefined)
                        => frame[c].wrapperName = "com.github.timtebeek." \o ReplaceWhitespaceRuns(d)
    /\ \A c1, c2 \in Callers :
        (HasNames(c1) /\ HasNames(c2))
            => /\ [props[c1] EXCEPT !.intellijWrapperName = props[c2].intellijWrapperName] = props[c2]
                    => frame[c1].description = frame[c2].description
               /\ [props[c1] EXCEPT !.intellijDescription = props[c2].intellijDescription] = props[c2]
                    => frame[c1].wrapperName = frame[c2].wrapperName

C27_Witness ==
    \E c1, c2 \in Callers :
        /\ HasNames(c1) /\ HasNames(c2)
        /\ props[c1].recipeDisplayName = JsString("Adopt AssertJ")
        /\ props[c1].intellijWrapperName = JsString("com.example.CustomWrapper")
        /\ props[c1].intellijDescription = Undefined
        /\ props[c2] = [props[c1] EXCEPT !.intellijWrapperName = Undefined]
        /\ frame[c1].wrapperName = "com.example.CustomWrapper"
        /\ frame[c2].wrapperName = "com.github.timtebeek.AdoptAssertJ"
        /\ frame[c1].description = "Adopt AssertJ and apply best practices to assertions."
        /\ frame[c2].description = frame[c1].description

====
